---- MODULE Spec2Model ----
(***************************************************************************)
(* A model of the mount table parser of libmount (src/mountinfo.rs):       *)
(* MountsParser::next, parse_int, parse_os_str, parse_path,                *)
(* unescape_octals and MountInfo::get_flags.                               *)
(*                                                                         *)
(* Bytes are the integers 0..255.  A byte string (Vec<u8>, &[u8],          *)
(* OsString, PathBuf) is a sequence of bytes.  A c_ulong is kept as its    *)
(* decimal numeral (a sequence of digit values without leading zeros), so  *)
(* that the 64-bit range check of str::parse is exact.                     *)
(***************************************************************************)
EXTENDS Integers, Sequences, FiniteSets, TLC

VARIABLES
    reader,      \* the bytes of mounts_file, the stream under BufReader
    pos,         \* number of bytes of reader the BufReader has consumed
    ioErrors,    \* read failures the underlying stream may still produce
    items,       \* the items returned so far by MountsParser::next
    panicked,    \* TRUE once a call to next has panicked
    mount_info,  \* the MountInfo the caller took from the last Ok item
    flags        \* the results of the get_flags calls made on mount_info

vars == <<reader, pos, ioErrors, items, panicked, mount_info, flags>>

-----------------------------------------------------------------------------
(* Byte literals of the source. *)

LF == 10
CR == 13
SPACE == 32
COMMA == 44
DASH == 45
COLON == 58
BACKSLASH == 92
PLUS == 43

(* char::REPLACEMENT_CHARACTER, what from_utf8_lossy puts for invalid bytes. *)
REPLACEMENT == 65533

(* libc mount flag bits. *)
MS_RDONLY == 1
MS_NOSUID == 2
MS_NODEV == 4
MS_NOEXEC == 8
MS_SYNCHRONOUS == 16
MS_MANDLOCK == 64
MS_DIRSYNC == 128
MS_NOATIME == 1024
MS_NODIRATIME == 2048
MS_RELATIME == 2097152
MS_STRICTATIME == 16777216

(* c_ulong::MAX = 2^64 - 1 = 18446744073709551615, as a numeral. *)
ULONG_MAX == <<1,8,4,4,6,7,4,4,0,7,3,7,0,9,5,5,1,6,1,5>>

(* u8::MAX *)
U8_MAX == 255

-----------------------------------------------------------------------------
(* Results of the helpers: Ok(v), Err(MountsParserError), or a panic. *)

Ok(v) == [tag |-> "Ok", val |-> v]

\* MountsParserError::kind(format!(text, args...)); args are the values
\* formatted into the message with {:?}
Err(kind, text, args) == [tag |-> "Err", kind |-> kind, text |-> text, args |-> args]

Panic == [tag |-> "Panic"]

None == [tag |-> "None"]

-----------------------------------------------------------------------------
(* slice::split: the segments between the occurrences of d; n occurrences  *)
(* give n + 1 segments, empty ones included.                               *)

RECURSIVE split(_, _)
split(s, d) ==
    IF \A i \in 1..Len(s) : s[i] # d
    THEN <<s>>
    ELSE LET k == CHOOSE i \in 1..Len(s) : s[i] = d /\ \A j \in 1..(i-1) : s[j] # d
         IN  <<SubSeq(s, 1, k-1)>> \o split(SubSeq(s, k+1, Len(s)), d)

(* String::from_utf8_lossy on the bytes the model uses: ASCII bytes are    *)
(* themselves, bytes 0xF8..0xFF are never part of UTF-8 and become U+FFFD. *)
(* Bytes 0x80..0xF7 do not occur in the inputs of the model.               *)
from_utf8_lossy(bytes) ==
    [i \in 1..Len(bytes) |-> IF bytes[i] >= 128 THEN REPLACEMENT ELSE bytes[i]]

(* char::to_digit(radix) for radix <= 10: the digit value, or -1. *)
to_digit(c, radix) ==
    IF c >= 48 /\ c < 48 + radix THEN c - 48 ELSE -1

(* core::num::from_str_radix: an optional leading '+', then digits. *)
digits_of(src) ==
    IF Len(src) > 0 /\ src[1] = PLUS THEN Tail(src) ELSE src

(* u8::from_str_radix(src, radix) *)
RECURSIVE u8_accumulate(_, _, _)
u8_accumulate(digits, radix, result) ==
    IF digits = <<>> THEN Ok(result)
    ELSE LET x == to_digit(Head(digits), radix)
         IN  IF x < 0 THEN Err("ParseIntError", "InvalidDigit", <<>>)
             ELSE IF result * radix > U8_MAX THEN Err("ParseIntError", "PosOverflow", <<>>)
             ELSE IF result * radix + x > U8_MAX THEN Err("ParseIntError", "PosOverflow", <<>>)
             ELSE u8_accumulate(Tail(digits), radix, result * radix + x)

u8_from_str_radix(src, radix) ==
    IF src = <<>> THEN Err("ParseIntError", "Empty", <<>>)
    ELSE IF digits_of(src) = <<>> THEN Err("ParseIntError", "InvalidDigit", <<>>)
    ELSE u8_accumulate(digits_of(src), radix, 0)

(* Numerals: a c_ulong value as its decimal digits, most significant first, *)
(* zero being <<0>>.                                                        *)
RECURSIVE strip_zeros(_)
strip_zeros(n) ==
    IF Len(n) > 1 /\ Head(n) = 0 THEN strip_zeros(Tail(n)) ELSE n

RECURSIVE numeral_less(_, _)
numeral_less(a, b) ==
    IF Len(a) # Len(b) THEN Len(a) < Len(b)
    ELSE IF a = <<>> THEN FALSE
    ELSE IF Head(a) # Head(b) THEN Head(a) < Head(b)
    ELSE numeral_less(Tail(a), Tail(b))

(* str::parse::<c_ulong>: from_str_radix(src, 10) with checked_mul and     *)
(* checked_add against c_ulong::MAX.                                       *)
RECURSIVE ulong_accumulate(_, _)
ulong_accumulate(digits, result) ==
    IF digits = <<>> THEN Ok(result)
    ELSE LET x == to_digit(Head(digits), 10)
             r == strip_zeros(Append(result, x))
         IN  IF x < 0 THEN Err("ParseIntError", "InvalidDigit", <<>>)
             ELSE IF numeral_less(ULONG_MAX, r) THEN Err("ParseIntError", "PosOverflow", <<>>)
             ELSE ulong_accumulate(Tail(digits), r)

parse_c_ulong(src) ==
    IF src = <<>> THEN Err("ParseIntError", "Empty", <<>>)
    ELSE IF digits_of(src) = <<>> THEN Err("ParseIntError", "InvalidDigit", <<>>)
    ELSE ulong_accumulate(digits_of(src), <<0>>)

-----------------------------------------------------------------------------
(* unescape_octals: the loop over i, on the buffer v.  i counts from 0 as  *)
(* in the source, so v[i] of the source is v[i+1] here.  v[i] on an empty  *)
(* buffer is out of bounds and panics.                                     *)

\* a loop that looks again at the byte it has just decoded
RECURSIVE unescape_loop_rescan(_, _)
unescape_loop_rescan(v, i) ==
    IF i >= Len(v) THEN Panic
    ELSE IF v[i+1] = BACKSLASH
    THEN LET tail == SubSeq(v, i+1, Len(v))
             head == SubSeq(v, 1, i)
         IN  IF Len(tail) < 4
             THEN Err("InvalidValue", "Invalid escaping", <<>>)
             ELSE LET oct == from_utf8_lossy(SubSeq(tail, 2, 4))
                      b == u8_from_str_radix(oct, 8)
                      v2 == (head \o <<b.val>>) \o SubSeq(tail, 5, Len(tail))
                  IN  IF b.tag # "Ok"
                      THEN Err("InvalidValue", "Expected octal number", <<>>)
                      ELSE unescape_loop_rescan(v2, i)
    ELSE IF i + 1 >= Len(v) THEN Ok(v)
    ELSE unescape_loop_rescan(v, i + 1)

RECURSIVE unescape_loop(_, _)
unescape_loop(v, i) ==
    IF i >= Len(v) THEN Panic
    ELSE IF v[i+1] = BACKSLASH
    THEN LET tail == SubSeq(v, i+1, Len(v))
             head == SubSeq(v, 1, i)
         IN  IF Len(tail) < 4
             THEN Err("InvalidValue", "Invalid escaping", <<>>)
             ELSE LET oct == from_utf8_lossy(SubSeq(tail, 2, 4))
                      b == u8_from_str_radix(oct, 8)
                      v2 == (head \o <<b.val>>) \o SubSeq(tail, 5, Len(tail))
                  IN  IF b.tag # "Ok"
                      THEN Err("InvalidValue", "Expected octal number", <<>>)
                      ELSE IF i + 1 >= Len(v2) THEN Ok(v2)
                      ELSE unescape_loop(v2, i + 1)
    ELSE IF i + 1 >= Len(v) THEN Ok(v)
    ELSE unescape_loop(v, i + 1)

unescape_octals(v) == unescape_loop(v, 0)

(* columns.next() on the n-th call: the n-th segment, if there is one. *)
has_column(columns, n) == n <= Len(columns)

parse_os_str(columns, n, row) ==
    IF ~has_column(columns, n)
    THEN Err("IncompleteRow", "Expected more values in row: ", <<from_utf8_lossy(row)>>)
    ELSE unescape_octals(columns[n])

parse_int(columns, n, row) ==
    IF ~has_column(columns, n)
    THEN Err("IncompleteRow", "Expected more values for row: ", <<from_utf8_lossy(row)>>)
    ELSE LET col == from_utf8_lossy(columns[n])
             r == parse_c_ulong(col)
         IN  IF r.tag = "Ok" THEN r
             ELSE Err("InvalidValue", "Cannot parse integer from ",
                      <<col, from_utf8_lossy(row)>>)

parse_path(columns, n, row) == parse_os_str(columns, n, row)

invalid_format == Err("IncompleteRow", "Expected more values", <<>>)

-----------------------------------------------------------------------------
(* The Some(Ok(row)) arm of MountsParser::next, on the row rows.next()     *)
(* returned: strip one trailing '\r', split on ' ', take the columns in    *)
(* order; itry! returns at the first failure.                              *)

\* a row from which no '\r' is removed
strip_cr_never(row) == row

strip_cr(row) ==
    IF Len(row) > 0 /\ row[Len(row)] = CR THEN SubSeq(row, 1, Len(row) - 1) ELSE row

MountInfo(mount_id, parent_id, major, minor, root, mount_point, mount_options, optional_fields, fstype, mount_source, super_options) ==
    [mount_id |-> mount_id, parent_id |-> parent_id, major |-> major,
     minor |-> minor, root |-> root, mount_point |-> mount_point,
     mount_options |-> mount_options, optional_fields |-> optional_fields,
     fstype |-> fstype, mount_source |-> mount_source,
     super_options |-> super_options]

parse_columns(row) ==
    LET columns == split(row, SPACE)
        mount_id == parse_int(columns, 1, row)
        parent_id == parse_int(columns, 2, row)
        major_minor == split(columns[3], COLON)
        major == parse_int(major_minor, 1, row)
        minor == parse_int(major_minor, 2, row)
        root == parse_path(columns, 4, row)
        mount_point == parse_path(columns, 5, row)
        mount_options == parse_os_str(columns, 6, row)
        optional_fields == parse_os_str(columns, 7, row)
        separator == columns[8]
        fstype == parse_os_str(columns, 9, row)
        mount_source == parse_os_str(columns, 10, row)
        super_options == parse_os_str(columns, 11, row)
    IN  IF mount_id.tag # "Ok" THEN mount_id
        ELSE IF parent_id.tag # "Ok" THEN parent_id
        ELSE IF ~has_column(columns, 3) THEN invalid_format
        ELSE IF major.tag # "Ok" THEN major
        ELSE IF minor.tag # "Ok" THEN minor
        ELSE IF root.tag # "Ok" THEN root
        ELSE IF mount_point.tag # "Ok" THEN mount_point
        ELSE IF mount_options.tag # "Ok" THEN mount_options
        ELSE IF optional_fields.tag # "Ok" THEN optional_fields
        ELSE IF ~has_column(columns, 8) THEN invalid_format
        ELSE IF separator # <<DASH>> THEN Panic
        ELSE IF fstype.tag # "Ok" THEN fstype
        ELSE IF mount_source.tag # "Ok" THEN mount_source
        ELSE IF super_options.tag # "Ok" THEN super_options
        ELSE Ok(MountInfo(mount_id.val, parent_id.val, major.val, minor.val,
                          root.val, mount_point.val, mount_options.val,
                          optional_fields.val, fstype.val, mount_source.val,
                          super_options.val))

parse_row(row) == parse_columns(strip_cr(row))

-----------------------------------------------------------------------------
(* Split<BufReader<R>>::next: read_until(b'\n') from the cursor.  It reads *)
(* up to and including the next delimiter, or to the end of the stream;    *)
(* no byte read is the end of the sequence; a trailing delimiter is popped. *)

\* a cursor left before the delimiter instead of after it
line_end_before_delim(bytes, from) ==
    IF \E i \in (from+1)..Len(bytes) : bytes[i] = LF
    THEN (CHOOSE i \in (from+1)..Len(bytes) :
             bytes[i] = LF /\ \A j \in (from+1)..(i-1) : bytes[j] # LF) - 1
    ELSE Len(bytes)

line_end(bytes, from) ==
    IF \E i \in (from+1)..Len(bytes) : bytes[i] = LF
    THEN CHOOSE i \in (from+1)..Len(bytes) :
             bytes[i] = LF /\ \A j \in (from+1)..(i-1) : bytes[j] # LF
    ELSE Len(bytes)

read_until(bytes, from) == SubSeq(bytes, from + 1, line_end(bytes, from))

pop_delim(buf) ==
    IF buf[Len(buf)] = LF THEN SubSeq(buf, 1, Len(buf) - 1) ELSE buf

rows_next(bytes, from) ==
    LET buf == read_until(bytes, from)
    IN  IF Len(buf) = 0 THEN None ELSE Ok(pop_delim(buf))

(* A failed read: read_until returns the error and drops what it had       *)
(* already taken from the stream for this line, which is any number of     *)
(* bytes before the delimiter (MaxLost at most here).                      *)
MaxLost == 1

lost_on_error(bytes, from) ==
    {n \in 0..MaxLost : from + n <= Len(bytes) /\ \A j \in (from+1)..(from+n) : bytes[j] # LF}

-----------------------------------------------------------------------------
(* MountInfo::get_flags *)

RECURSIVE BitOr(_, _)
BitOr(a, b) ==
    IF a = 0 THEN b
    ELSE IF b = 0 THEN a
    ELSE (IF a % 2 = 1 \/ b % 2 = 1 THEN 1 ELSE 0) + 2 * BitOr(a \div 2, b \div 2)

\* the bytes of an ASCII option name
opt_ro == <<114, 111>>
opt_nosuid == <<110, 111, 115, 117, 105, 100>>
opt_nodev == <<110, 111, 100, 101, 118>>
opt_noexec == <<110, 111, 101, 120, 101, 99>>
opt_mand == <<109, 97, 110, 100>>
opt_sync == <<115, 121, 110, 99>>
opt_dirsync == <<100, 105, 114>> \o opt_sync
opt_noatime == <<110, 111, 97, 116, 105, 109, 101>>
opt_nodiratime == <<110, 111, 100, 105, 114, 97, 116, 105, 109, 101>>
opt_relatime == <<114, 101, 108, 97, 116, 105, 109, 101>>
opt_strictatime == <<115, 116, 114, 105, 99, 116, 97, 116, 105, 109, 101>>

flag_of(opt) ==
    IF opt = opt_ro THEN MS_RDONLY
    ELSE IF opt = opt_nosuid THEN MS_NOSUID
    ELSE IF opt = opt_nodev THEN MS_NODEV
    ELSE IF opt = opt_noexec THEN MS_NOEXEC
    ELSE IF opt = opt_mand THEN MS_MANDLOCK
    ELSE IF opt = opt_sync THEN MS_SYNCHRONOUS
    ELSE IF opt = opt_dirsync THEN MS_DIRSYNC
    ELSE IF opt = opt_noatime THEN MS_NOATIME
    ELSE IF opt = opt_nodiratime THEN MS_NODIRATIME
    ELSE IF opt = opt_relatime THEN MS_RELATIME
    ELSE IF opt = opt_strictatime THEN MS_STRICTATIME
    ELSE 0

\* flags = instead of flags |=: the last recognized option wins
RECURSIVE fold_flags_last_wins(_, _)
fold_flags_last_wins(opts, acc) ==
    IF opts = <<>> THEN acc
    ELSE fold_flags_last_wins(Tail(opts),
             IF flag_of(Head(opts)) # 0 THEN flag_of(Head(opts)) ELSE acc)

RECURSIVE fold_flags(_, _)
fold_flags(opts, acc) ==
    IF opts = <<>> THEN acc
    ELSE fold_flags(Tail(opts), BitOr(acc, flag_of(Head(opts))))

get_flags(info) == fold_flags(split(info.mount_options, COMMA), 0)

-----------------------------------------------------------------------------
(* The state machine: a caller that owns the parser calls next, keeps the  *)
(* record of an Ok item and calls get_flags on it.                         *)

NoInfo == [tag |-> "NoInfo"]

\* how many times the caller goes on calling next after the first None
MaxNone == 2
\* how many times the caller calls get_flags on one record
MaxFlagCalls == 2
\* how many reads of the underlying stream may fail
MaxIoErrors == 1

NoneCount == Cardinality({i \in 1..Len(items) : items[i].tag = "None"})

ReadError == Err("Read", "Error when reading mounts file", <<>>)

\* the item of a call whose read succeeded
item_of(r) ==
    IF r.tag = "None" THEN None ELSE parse_row(r.val)

\* a next that returns None once a read has failed
next_read_fused ==
    /\ ~panicked
    /\ NoneCount < MaxNone
    /\ LET failed == \E i \in 1..Len(items) : items[i] = ReadError
           r == IF failed THEN None ELSE rows_next(reader, pos)
           item == item_of(r)
       IN  /\ pos' = IF failed THEN pos ELSE line_end(reader, pos)
           /\ IF item.tag = "Panic"
              THEN /\ panicked' = TRUE
                   /\ UNCHANGED <<items, mount_info, flags>>
              ELSE /\ panicked' = FALSE
                   /\ items' = Append(items, item)
                   /\ IF item.tag = "Ok"
                      THEN mount_info' = item.val /\ flags' = <<>>
                      ELSE UNCHANGED <<mount_info, flags>>
    /\ UNCHANGED <<reader, ioErrors>>

\* next(): the read succeeds
next_read ==
    /\ ~panicked
    /\ NoneCount < MaxNone
    /\ LET r == rows_next(reader, pos)
           item == item_of(r)
       IN  /\ pos' = line_end(reader, pos)
           /\ IF item.tag = "Panic"
              THEN /\ panicked' = TRUE
                   /\ UNCHANGED <<items, mount_info, flags>>
              ELSE /\ panicked' = FALSE
                   /\ items' = Append(items, item)
                   /\ IF item.tag = "Ok"
                      THEN mount_info' = item.val /\ flags' = <<>>
                      ELSE UNCHANGED <<mount_info, flags>>
    /\ UNCHANGED <<reader, ioErrors>>

\* next(): the read fails with an I/O error
next_read_error ==
    /\ ~panicked
    /\ NoneCount < MaxNone
    /\ ioErrors > 0
    /\ ioErrors' = ioErrors - 1
    /\ \E n \in lost_on_error(reader, pos) : pos' = pos + n
    /\ items' = Append(items, ReadError)
    /\ UNCHANGED <<reader, panicked, mount_info, flags>>

\* mount_info.get_flags()
call_get_flags ==
    /\ ~panicked
    /\ mount_info # NoInfo
    /\ Len(flags) < MaxFlagCalls
    /\ flags' = Append(flags, get_flags(mount_info))
    /\ UNCHANGED <<reader, pos, ioErrors, items, panicked, mount_info>>

Next == next_read \/ next_read_error \/ call_get_flags

InitOn(streams) ==
    /\ reader \in streams
    /\ pos = 0
    /\ ioErrors \in 0..MaxIoErrors
    /\ items = <<>>
    /\ panicked = FALSE
    /\ mount_info = NoInfo
    /\ flags = <<>>

-----------------------------------------------------------------------------
(* Inputs: the rows of the tests of src/mountinfo.rs, and rows made from   *)
(* them.  A row is the join of its columns with ' '.                       *)

RECURSIVE join(_, _)
join(cols, d) ==
    IF cols = <<>> THEN <<>>
    ELSE IF Len(cols) = 1 THEN cols[1]
    ELSE (cols[1] \o <<d>>) \o join(Tail(cols), d)

RECURSIVE concat(_)
concat(ss) == IF ss = <<>> THEN <<>> ELSE Head(ss) \o concat(Tail(ss))

row_of(cols) == join(cols, SPACE)

t_19 == <<49, 57>>   \* '19'
t_24 == <<50, 52>>   \* '24'
t_0c4 == <<48, 58, 52>>   \* '0:4'
t_root == <<47>>   \* '/'
t_proc_dir == <<47, 112, 114, 111, 99>>   \* '/proc'
t_opts == <<114, 119, 44, 110, 111, 115, 117, 105, 100, 44, 110, 111, 100, 101, 118, 44, 110, 111, 101, 120, 101, 99, 44, 114, 101, 108, 97, 116, 105, 109, 101>>   \* 'rw,nosuid,nodev,noexec,relatime'
t_shared == <<115, 104, 97, 114, 101, 100, 58, 49, 50>>   \* 'shared:12'
t_dash == <<45>>   \* '-'
t_proc == <<112, 114, 111, 99>>   \* 'proc'
t_rw == <<114, 119>>   \* 'rw'

\* test_mount_info_parser_proc
ProcColumns ==
    <<t_19, t_24, t_0c4, t_root, t_proc_dir, t_opts, t_shared, t_dash, t_proc, t_proc, t_rw>>

ProcRow == row_of(ProcColumns)

t_76 == <<55, 54>>   \* '76'
t_8c6 == <<56, 58, 54>>   \* '8:6'
t_home == <<47, 104, 111, 109, 101, 47, 109, 121, 92, 48, 52, 48, 115, 117, 112, 101, 114, 92, 48, 52, 54, 110, 97, 109, 101>>   \* '/home/my\\040super\\046name'
t_rw_relatime == <<114, 119, 44, 114, 101, 108, 97, 116, 105, 109, 101>>   \* 'rw,relatime'
t_shared29 == <<115, 104, 97, 114, 101, 100, 58, 50, 57>>   \* 'shared:29'
t_ext4 == <<101, 120, 116, 52>>   \* 'ext4'
t_sda1 == <<47, 100, 101, 118, 47, 115, 100, 97, 49>>   \* '/dev/sda1'
t_data == <<114, 119, 44, 100, 97, 116, 97, 61, 111, 114, 100, 101, 114, 101, 100>>   \* 'rw,data=ordered'

\* test_mount_info_parser_whitespaces
EscColumns ==
    <<t_76, t_24, t_8c6, t_root, t_home, t_rw_relatime, t_shared29, t_dash, t_ext4, t_sda1, t_data>>

EscRow == row_of(EscColumns)

t_24b == <<50, 52, 98>>   \* '24b'
t_bad_esc == <<47, 112, 114, 111, 99, 92, 48, 49>>   \* '/proc\\01'

\* test_mount_info_parser_incomplete_row: the last column is missing
IncompleteRow == row_of(SubSeq(ProcColumns, 1, 10))

\* test_mount_info_parser_invalid_int
InvalidIntRow == row_of([ProcColumns EXCEPT ![2] = t_24b])

\* test_mount_info_parser_invalid_escape
InvalidEscapeRow == row_of([ProcColumns EXCEPT ![5] = t_bad_esc])

\* a row without optional fields: its eighth column is the fstype
NoOptionalRow == row_of(SubSeq(ProcColumns, 1, 6) \o SubSeq(ProcColumns, 8, 11))

\* a row whose root column is empty (two adjacent spaces)
EmptyColumnRow == row_of([ProcColumns EXCEPT ![4] = <<>>])

EmptyRow == <<>>

\* the lines of the streams of Spec, each with its line ending
Lines ==
    { ProcRow \o <<LF>>, EscRow \o <<CR, LF>>, IncompleteRow \o <<CR, LF>>,
      NoOptionalRow \o <<LF>>, EmptyColumnRow \o <<LF>>, EmptyRow \o <<LF>> }

\* the number of lines of a stream
MaxLines == 2

RECURSIVE SeqsUpTo(_, _)
SeqsUpTo(S, n) ==
    IF n = 0 THEN {<<>>}
    ELSE LET shorter == SeqsUpTo(S, n - 1)
         IN  shorter \cup {Append(q, x) : q \in shorter, x \in S}

\* a stream may end without the delimiter of its last line
without_last_delim(bytes) ==
    IF Len(bytes) > 0 /\ bytes[Len(bytes)] = LF THEN SubSeq(bytes, 1, Len(bytes) - 1) ELSE bytes

StreamsOf(lines, n) ==
    LET whole == {concat(q) : q \in SeqsUpTo(lines, n)}
    IN  whole \cup {without_last_delim(b) : b \in whole}

Streams == StreamsOf(Lines, MaxLines)

Init == InitOn(Streams)

Spec == Init /\ [][Next]_vars

-----------------------------------------------------------------------------
(* Streams of one row: rows of eleven well-formed columns, rows with one   *)
(* integer token replaced, and rows cut after their first k columns.       *)

t_007 == <<48, 48, 55>>   \* '007'
t_max == <<49, 56, 52, 52, 54, 55, 52, 52, 48, 55, 51, 55, 48, 57, 53, 53, 49, 54, 49, 53>>   \* '18446744073709551615'
t_over == <<49, 56, 52, 52, 54, 55, 52, 52, 48, 55, 51, 55, 48, 57, 53, 53, 49, 54, 49, 54>>   \* '18446744073709551616'
t_plus19 == <<43, 49, 57>>   \* '+19'
t_minus5 == <<45, 53>>   \* '-5'
t_plus == <<43>>   \* '+'
t_ff == <<255>>   \* '\xff'
t_4 == <<52>>   \* '4'
t_root_esc == <<47, 97, 92, 48, 52, 48, 98>>   \* '/a\\040b'
t_ff_dir == <<47, 255>>   \* '/\xff'
t_tab == <<120, 92, 48, 49, 49>>   \* 'x\\011'
t_bs_dev == <<47, 100, 101, 118, 47, 115, 92, 49, 51, 52, 48, 52, 48>>   \* '/dev/s\\134040'

\* a second well-formed row, different from ProcColumns in every column
\* but the separator
AltColumns ==
    <<t_007, t_max, t_8c6, t_root_esc, t_home, t_rw_relatime, t_tab, t_dash,
      t_ext4, t_bs_dev, t_data>>

\* test_mounts_parser_non_utf8: a mount point with the byte 0xFF
NonUtf8Columns == [ProcColumns EXCEPT ![5] = t_ff_dir]

\* ProcColumns with at most two columns taken from AltColumns, or all
WellFormedColumns ==
    { [k \in 1..11 |-> IF k \in {m, n} THEN AltColumns[k] ELSE ProcColumns[k]] :
        m \in 1..11, n \in 1..11 }
        \cup {ProcColumns, AltColumns, NonUtf8Columns}

IntTokens ==
    {t_19, t_007, t_max, t_over, t_plus19, t_minus5, t_plus, t_24b, t_ff, <<>>}

IntColumns ==
    {[ProcColumns EXCEPT ![1] = t] : t \in IntTokens}
        \cup {[ProcColumns EXCEPT ![2] = t] : t \in IntTokens}
        \cup {[ProcColumns EXCEPT ![3] = (t \o <<COLON>>) \o t_4] : t \in IntTokens}
        \cup {[ProcColumns EXCEPT ![3] = (t_4 \o <<COLON>>) \o t] : t \in IntTokens}

\* the columns of a row whose third column has no ':minor' part
NoMinorColumns == [ProcColumns EXCEPT ![3] = t_4]

PrefixColumns ==
    {SubSeq(cols, 1, k) : cols \in {ProcColumns, EscColumns, NoMinorColumns}, k \in 1..11}

RowStreams ==
    LET rows == {row_of(cols) : cols \in WellFormedColumns \cup IntColumns \cup PrefixColumns}
    IN  rows \cup {r \o <<CR, LF>> : r \in {row_of(cols) : cols \in PrefixColumns}}

InitRows == InitOn(RowStreams)

SpecRows == InitRows /\ [][Next]_vars

-----------------------------------------------------------------------------
(* Streams of one row whose mount_point column is a field made of pieces:  *)
(* plain bytes, escapes, and escapes that are cut short or not octal.      *)

p_a == <<97>>   \* 'a'
p_ff == <<255>>   \* '\xff'
p_040 == <<48, 52, 48>>   \* '040'
p_8 == <<56>>   \* '8'
p_e134 == <<92, 49, 51, 52>>   \* '\\134'
p_e040 == <<92, 48, 52, 48>>   \* '\\040'
p_e377 == <<92, 51, 55, 55>>   \* '\\377'
p_e400 == <<92, 52, 48, 48>>   \* '\\400'
p_e08 == <<92, 48, 56>>   \* '\\08'
p_eplus == <<92, 43, 49>>   \* '\\+1'
p_bs == <<92>>   \* '\\'

Pieces ==
    {p_a, p_ff, p_040, p_8, p_e134, p_e040, p_e377, p_e400, p_e08, p_eplus, p_bs}

\* the number of pieces of a field
MaxPieces == 3

Fields == {concat(q) : q \in SeqsUpTo(Pieces, MaxPieces)}

FieldStreams == {row_of([ProcColumns EXCEPT ![5] = f]) : f \in Fields}

InitFields == InitOn(FieldStreams)

SpecFields == InitFields /\ [][Next]_vars

-----------------------------------------------------------------------------
(* Streams of one row whose mount_options column is a list of options.     *)

o_async == <<97, 115, 121, 110, 99>>   \* 'async'
o_nosuidx == <<110, 111, 115, 117, 105, 100, 120>>   \* 'nosuidx'

OptTokens ==
    { opt_ro, opt_nosuid, opt_nodev, opt_noexec, opt_mand, opt_sync, opt_dirsync,
      opt_noatime, opt_nodiratime, opt_relatime, opt_strictatime,
      t_rw, o_async, o_nosuidx, <<>> }

\* the tokens of the lists of several options
ListTokens == {opt_ro, opt_nosuid, opt_sync, opt_dirsync, t_rw, o_async, o_nosuidx, <<>>}

\* the number of options of a row
MaxOpts == 2

OptionLists == {<<t>> : t \in OptTokens} \cup SeqsUpTo(ListTokens, MaxOpts)

OptionStreams ==
    {row_of([ProcColumns EXCEPT ![6] = join(q, COMMA)]) : q \in OptionLists}

InitOptions == InitOn(OptionStreams)

SpecOptions == InitOptions /\ [][Next]_vars

-----------------------------------------------------------------------------
(* Streams of two lines with the same content, the first ended by "\r\n"   *)
(* and the second by "\n".                                                 *)

t_rw_cr == <<114, 119, 13>>   \* 'rw\r'

CrlfContents ==
    LET rows == {row_of(cols) : cols \in IntColumns \cup PrefixColumns}
                    \cup {EscRow, InvalidIntRow, InvalidEscapeRow, NoOptionalRow, EmptyRow,
                          row_of([ProcColumns EXCEPT ![6] = t_rw_cr])}
    IN  rows \cup {r \o <<CR>> : r \in rows}

CrlfStreams == {((c \o <<CR, LF>>) \o c) \o <<LF>> : c \in CrlfContents}

InitCrlf == InitOn(CrlfStreams)

SpecCrlf == InitCrlf /\ [][Next]_vars

-----------------------------------------------------------------------------
(* What the claims speak of. *)

\* the positions of the delimiter d in a byte string
Delims(bytes, d) == {i \in 1..Len(bytes) : bytes[i] = d}

\* the number of segments that the delimiters cut a byte string into
NumSegments(bytes, d) == Cardinality(Delims(bytes, d)) + 1

\* the position before the k-th segment: 0, or that of the (k-1)-th delimiter
SegmentStart(bytes, d, k) ==
    IF k = 1 THEN 0
    ELSE CHOOSE i \in Delims(bytes, d) :
             Cardinality({j \in Delims(bytes, d) : j < i}) = k - 2

\* the k-th segment, without its delimiter
NthSegment(bytes, d, k) ==
    LET from == SegmentStart(bytes, d, k)
        after == {i \in Delims(bytes, d) : i > from}
        to == IF after = {} THEN Len(bytes)
              ELSE (CHOOSE i \in after : \A j \in after : i <= j) - 1
    IN  SubSeq(bytes, from + 1, to)

\* the number of '\n'-delimited lines of a stream: one per delimiter, and
\* one more for bytes after the last delimiter
NumLines(bytes) ==
    Cardinality(Delims(bytes, LF))
        + (IF Len(bytes) > 0 /\ bytes[Len(bytes)] # LF THEN 1 ELSE 0)

\* the k-th line, without its delimiter
NthLine(bytes, k) == NthSegment(bytes, LF, k)

\* the first item of a new parser over a stream whose reads do not fail
FirstItem(bytes) == item_of(rows_next(bytes, 0))

\* the item of a line taken alone
ItemAlone(line) == FirstItem(line \o <<LF>>)

IsReadError(item) == item.tag = "Err" /\ item.kind = "Read"

IsLineError(item) ==
    item.tag = "Err" /\ item.kind \in {"IncompleteRow", "InvalidValue"}

NoReadFailed == \A i \in 1..Len(items) : ~IsReadError(items[i])

Last(q) == q[Len(q)]

\* C2: while no read has failed, the i-th item returned is the item of the
\* i-th '\n'-delimited line taken alone, whatever the lines before it were
\* (a line in error gives its one error item and the later lines give their
\* own items), and the items after the last line are None.
C2_ItemsAreLinesAlone ==
    NoReadFailed =>
        \A i \in 1..Len(items) :
            IF i <= NumLines(reader)
            THEN items[i] = ItemAlone(NthLine(reader, i))
            ELSE items[i] = None

\* a row in error, then a record, then the end of the stream
C2_Witness ==
    /\ Len(items) = 3
    /\ IsLineError(items[1])
    /\ items[2].tag = "Ok"
    /\ items[3] = None

\* C3: no call to next panics, on any input
C3_NeverPanics == ~panicked

\* C4 as claimed: after an Err(Read) item every later item is None
C4_ReadErrorEndsSequence ==
    \A i \in 1..Len(items) : \A j \in (i+1)..Len(items) :
        IsReadError(items[i]) => items[j] = None

\* C4 as the code has it: a failed read gives one Err(Read) item for that
\* call, and the sequence goes on: the call after an Err(Read) reads the
\* stream again from the cursor and returns the item of the next unread
\* line (None only when no byte is left), or Err(Read) if it fails again.
C4_ReadErrorThenContinues ==
    [][ /\ (ioErrors' # ioErrors => items' = Append(items, ReadError))
        /\ ((items # <<>> /\ IsReadError(Last(items)) /\ Len(items') = Len(items) + 1)
               => Last(items') \in
                     {ReadError, FirstItem(SubSeq(reader, pos + 1, Len(reader)))})
      ]_vars

\* a record returned after an Err(Read)
C4_Witness ==
    /\ Len(items) >= 2
    /\ IsReadError(items[1])
    /\ items[2].tag = "Ok"

-----------------------------------------------------------------------------
(* Rows and fields as the format describes them. *)

\* the first line of the stream as it is tokenized: without the '\r' that
\* ends it, if any
FirstRow ==
    LET line == NthLine(reader, 1)
    IN  IF Len(line) > 0 /\ line[Len(line)] = CR
        THEN SubSeq(line, 1, Len(line) - 1) ELSE line

\* the k-th space-separated column of the first row
Column(k) == NthSegment(FirstRow, SPACE, k)

NumColumns == NumSegments(FirstRow, SPACE)

\* the first call to next has been made and its read did not fail
FirstCallReturned == NoReadFailed /\ (panicked \/ items # <<>>)

IsOctalDigit(b) == b >= 48 /\ b <= 55

OctalValue(a, b, c) == (a - 48) * 64 + (b - 48) * 8 + (c - 48)

\* every backslash of the field starts a \NNN escape of value at most 255
WellEscaped(f) ==
    \A i \in 1..Len(f) :
        f[i] = BACKSLASH =>
            /\ i + 3 <= Len(f)
            /\ \A k \in 1..3 : IsOctalDigit(f[i+k])
            /\ OctalValue(f[i+1], f[i+2], f[i+3]) <= 255

\* the field with each \NNN replaced by the byte of value NNN
RECURSIVE Decoded(_)
Decoded(f) ==
    IF f = <<>> THEN <<>>
    ELSE IF f[1] = BACKSLASH
    THEN <<OctalValue(f[2], f[3], f[4])>> \o Decoded(SubSeq(f, 5, Len(f)))
    ELSE <<f[1]>> \o Decoded(Tail(f))

\* the digit values of a token, without leading zeros
RECURSIVE Canonical(_)
Canonical(ds) ==
    IF Len(ds) > 1 /\ ds[1] = 0 THEN Canonical(Tail(ds)) ELSE ds

NumericValue(t) == Canonical([i \in 1..Len(t) |-> t[i] - 48])

\* a non-empty run of digits '0'..'9' whose value is at most 2^64 - 1
IsDecimal(t) ==
    /\ Len(t) > 0
    /\ \A i \in 1..Len(t) : t[i] >= 48 /\ t[i] <= 57
    /\ LET n == NumericValue(t)
       IN  \/ Len(n) < Len(ULONG_MAX)
           \/ /\ Len(n) = Len(ULONG_MAX)
              /\ \A i \in 1..Len(n) :
                     n[i] > ULONG_MAX[i] => \E j \in 1..(i-1) : n[j] < ULONG_MAX[j]

\* the major and the minor part of the third column
Major == NthSegment(Column(3), COLON, 1)
Minor == NthSegment(Column(3), COLON, 2)

HasMinor == NumSegments(Column(3), COLON) >= 2

\* the k-th column is a valid column of the grammar (the third one is
\* judged by its major part here, and by HasMinor and Minor apart)
ValidColumn(k) ==
    IF k \in {1, 2} THEN IsDecimal(Column(k))
    ELSE IF k = 3 THEN IsDecimal(Major) /\ (HasMinor => IsDecimal(Minor))
    ELSE IF k = 8 THEN Column(k) = <<DASH>>
    ELSE Len(Column(k)) > 0 /\ WellEscaped(Column(k))

\* a row of exactly the eleven columns of the grammar, each a non-empty
\* valid token
WellFormedRow ==
    /\ NumColumns = 11
    /\ \A k \in 1..11 : ValidColumn(k)
    /\ NumSegments(Column(3), COLON) = 2

\* a row of valid columns that has fewer of them than the grammar requires
TooFewColumns ==
    /\ NumColumns <= 11
    /\ \A k \in 1..NumColumns : ValidColumn(k)
    /\ NumColumns < 11 \/ ~HasMinor
    /\ NumColumns >= 3 => NumSegments(Column(3), COLON) <= 2

C5_WellEscapedFieldDecodes ==
    (FirstCallReturned /\ WellEscaped(Column(5))) =>
        /\ ~panicked
        /\ items[1].tag = "Ok"
        /\ items[1].val.mount_point = Decoded(Column(5))

\* C5 for the fields of at least one byte
C5_NonEmptyFieldDecodes ==
    (FirstCallReturned /\ WellEscaped(Column(5)) /\ Len(Column(5)) > 0) =>
        /\ ~panicked
        /\ items[1].tag = "Ok"
        /\ items[1].val.mount_point = Decoded(Column(5))

\* C6: a field with a backslash that does not start a valid escape makes
\* the line fail with InvalidValue: no record is returned for it.
C6_BadEscapeIsInvalidValue ==
    (FirstCallReturned /\ ~WellEscaped(Column(5))) =>
        /\ ~panicked
        /\ items[1].tag = "Err"
        /\ items[1].kind = "InvalidValue"

\* C7: a row whose mount_id, parent_id, major or minor token is not a
\* non-empty run of digits in range gives InvalidValue and no record.
C7_NonDecimalIsInvalidValue ==
    (/\ FirstCallReturned
     /\ NumColumns >= 3
     /\ HasMinor
     /\ ~(IsDecimal(Column(1)) /\ IsDecimal(Column(2)) /\ IsDecimal(Major) /\ IsDecimal(Minor)))
    =>
        /\ ~panicked
        /\ items[1].tag = "Err"
        /\ items[1].kind = "InvalidValue"

\* C8: a row of valid columns that has too few of them gives
\* IncompleteRow, with the row in the message.
C8_IncompleteRowNamesTheRow ==
    (FirstCallReturned /\ TooFewColumns) =>
        /\ ~panicked
        /\ items[1].tag = "Err"
        /\ items[1].kind = "IncompleteRow"
        /\ \E k \in 1..Len(items[1].args) : items[1].args[k] = FirstRow

\* C8 without the message
C8_TooFewColumnsIsIncompleteRow ==
    (FirstCallReturned /\ TooFewColumns) =>
        /\ ~panicked
        /\ items[1].tag = "Err"
        /\ items[1].kind = "IncompleteRow"

-----------------------------------------------------------------------------
(* Flags as the option list describes them. *)

\* the recognized option names and their flag bits
FlagTable ==
    << <<opt_ro, MS_RDONLY>>, <<opt_nosuid, MS_NOSUID>>, <<opt_nodev, MS_NODEV>>,
       <<opt_noexec, MS_NOEXEC>>, <<opt_mand, MS_MANDLOCK>>,
       <<opt_sync, MS_SYNCHRONOUS>>, <<opt_dirsync, MS_DIRSYNC>>,
       <<opt_noatime, MS_NOATIME>>, <<opt_nodiratime, MS_NODIRATIME>>,
       <<opt_relatime, MS_RELATIME>>, <<opt_strictatime, MS_STRICTATIME>> >>

\* the comma-separated tokens of an option list, as a set
TokenSet(opts) == {NthSegment(opts, COMMA, k) : k \in 1..NumSegments(opts, COMMA)}

\* the sum of the bits (all different powers of two) of the first n names
\* of the table that are in a set of tokens
RECURSIVE SumOfBits(_, _)
SumOfBits(n, tokens) ==
    IF n = 0 THEN 0
    ELSE SumOfBits(n - 1, tokens)
            + (IF FlagTable[n][1] \in tokens THEN FlagTable[n][2] ELSE 0)

ExpectedFlags(opts) == SumOfBits(Len(FlagTable), TokenSet(opts))

\* C9: every call of get_flags on a record returns the union of the bits of
\* the recognized names that are whole comma-separated tokens of its
\* mount_options: other tokens add nothing, order and repetition do not
\* matter, no recognized token gives 0, and a second call gives the same.
C9_FlagsAreTheRecognizedTokens ==
    \A k \in 1..Len(flags) : flags[k] = ExpectedFlags(mount_info.mount_options)

\* two calls on a record whose options are "nosuidx,nosuid"
C9_Witness ==
    /\ Len(flags) = 2
    /\ mount_info # NoInfo
    /\ mount_info.mount_options = (o_nosuidx \o <<COMMA>>) \o opt_nosuid
    /\ flags[2] = MS_NOSUID

-----------------------------------------------------------------------------
(* Line endings. *)

\* the content of the first line of a stream of CrlfStreams: the line
\* without the '\r' of its "\r\n"
Content ==
    LET line == NthLine(reader, 1)
    IN  SubSeq(line, 1, Len(line) - 1)

EndsWithCR(bytes) == Len(bytes) > 0 /\ bytes[Len(bytes)] = CR

\* two items of the same kind with the same record, whatever the message
\* of an error
SameItem(a, b) ==
    /\ a.tag = b.tag
    /\ a.tag = "Ok" => a.val = b.val
    /\ a.tag = "Err" => a.kind = b.kind

\* C10 as claimed: for every content, the item of the content ended by
\* "\r\n" is the item of the same content ended by "\n"
C10_CrlfItemIsLfItem ==
    (NoReadFailed /\ Len(items) >= 2) => SameItem(items[1], items[2])

\* C10 as the code has it: exactly one '\r' before the delimiter is
\* removed and the rest of the line is tokenized as it stands, so that the
\* item of a content ended by "\r\n" is the item of the same content ended
\* by "\n" when the content does not itself end in '\r'.
C10_CrlfItemIsLfItemUnlessContentEndsInCR ==
    /\ (NoReadFailed /\ Len(items) >= 1) => items[1] = parse_columns(Content)
    /\ (NoReadFailed /\ Len(items) >= 2 /\ ~EndsWithCR(Content)) => items[1] = items[2]
    /\ (NoReadFailed /\ panicked /\ items = <<>> /\ ~EndsWithCR(Content))
           => ItemAlone(NthLine(reader, 2)) = Panic

\* the same record from a row with escapes ended by "\r\n" and by "\n"
C10_Witness ==
    /\ NoReadFailed
    /\ Len(items) >= 2
    /\ Content = EscRow
    /\ items[1].tag = "Ok"
    /\ items[2] = items[1]

====
